---- MODULE Spec2Model ----
(***************************************************************************)
(* Model of the auth-service AuthController (sendOtp, verifyOtp, login,    *)
(* logout) together with the collaborators it calls: the user store, the   *)
(* refresh-token store, the credential service and the token service.      *)
(*                                                                         *)
(* A string is a sequence of one-character strings, so that the template   *)
(* literals, String(), unary plus and split("#") of the controller are     *)
(* computed rather than assumed.  Every await of a handler is a separate   *)
(* step, so that requests interleave exactly where the event loop lets     *)
(* them.                                                                   *)
(***************************************************************************)
EXTENDS Integers, Sequences, FiniteSets

\* ------------------------------------------------------------------ bounds
\* Number of requests that can be in flight at the same time.
MaxReq == 2
\* Number of handler invocations in one behaviour.
MaxCalls == 3
\* How many ms past the life of one envelope the clock runs.
MaxLate == 1

\* ----------------------------------------------------------------- strings
Digits == <<"0", "1", "2", "3", "4", "5", "6", "7", "8", "9">>

IsDigit(c) == \E i \in 1..10 : Digits[i] = c

DigitVal(c) == (CHOOSE i \in 1..10 : Digits[i] = c) - 1

\* The value Number(s) has no number for.
NaN == 0 - 1

RECURSIVE ToString(_)
\* String(n) and `${n}` of a non-negative integer: its decimal digits.
ToString(n) ==
    IF n < 10 THEN <<Digits[n + 1]>>
    ELSE ToString(n \div 10) \o <<Digits[(n % 10) + 1]>>

RECURSIVE DigitsValue(_)
DigitsValue(s) ==
    IF s = <<>> THEN 0
    ELSE 10 * DigitsValue(SubSeq(s, 1, Len(s) - 1)) + DigitVal(s[Len(s)])

\* Unary plus / Number(s) on the characters the model uses: "" is 0, a run
\* of digits is its value, digits with one "." are a decimal (its integer
\* part is kept: the clock it is compared with is an integer), anything
\* else is NaN.
ToNumber(s) ==
    LET dots == {i \in 1..Len(s) : s[i] = "."}
        rest == {i \in 1..Len(s) : s[i] # "."}
    IN  IF s = <<>> THEN 0
        ELSE IF \E i \in rest : ~IsDigit(s[i]) THEN NaN
        ELSE IF dots = {} THEN DigitsValue(s)
        ELSE IF Cardinality(dots) = 1 /\ rest # {}
             THEN DigitsValue(SubSeq(s, 1, (CHOOSE i \in dots : TRUE) - 1))
        ELSE NaN

\* a > b of two numbers: false as soon as one of them is NaN.
Gt(a, b) == a # NaN /\ b # NaN /\ a > b

RECURSIVE Split(_)
\* s.split("#"): the fields between the separators, empty ones included.
Split(s) ==
    IF \A i \in 1..Len(s) : s[i] # "#" THEN <<s>>
    ELSE LET i == CHOOSE k \in 1..Len(s) :
                      s[k] = "#" /\ \A j \in 1..(k - 1) : s[j] # "#"
         IN  <<SubSeq(s, 1, i - 1)>> \o Split(SubSeq(s, i + 1, Len(s)))

\* `${a}#${b}#${c}`
JoinHash(a, b, c) == a \o <<"#">> \o b \o <<"#">> \o c

\* The two hexadecimal digits of a character's code.
HexCode(c) ==
    CASE c = "#" -> <<"2", "3">>
      [] c = "$" -> <<"2", "4">>
      [] c = "." -> <<"2", "e">>
      [] IsDigit(c) -> <<"3", c>>
      [] c = "a" -> <<"6", "1">>
      [] c = "b" -> <<"6", "2">>
      [] c = "n" -> <<"6", "e">>
      [] c = "p" -> <<"7", "0">>
      [] c = "q" -> <<"7", "1">>
      [] c = "s" -> <<"7", "3">>
      [] OTHER -> <<"3", "f">>

RECURSIVE Hex(_)
Hex(s) == IF s = <<>> THEN <<>> ELSE HexCode(Head(s)) \o Hex(Tail(s))

\* ------------------------------------------------------------ program data
\* const ttl = 1000 * 60 * 10
ttl == 1000 * 60 * 10

\* Role.CUSTOMER
CUSTOMER == "customer"

FullName == <<"n">>
Emails == {<<"a">>, <<"a", ".", "b">>}
Passwords == {<<"p">>, <<"q">>}
\* The password a registration asks for.
RegPassword == <<"p">>
Otps == {<<"1">>, <<"2">>}
Salt == <<"s", ".">>

\* The user a lookup returns when there is none (undefined / null).
NoUser == [id |-> 0, fullName |-> <<>>, email |-> <<>>, password |-> <<>>,
           role |-> ""]

\* ------------------------------------------------------ credential service
\* bcrypt: "$", the salt, then a one-way image of the password.  The output
\* is written in the alphabet ./A-Za-z0-9, so it can hold "." and never
\* holds "#".
hashDataUsingBcrypt(password) == <<"$">> \o Salt \o Hex(password)

\* bcrypt.compare(password, hash)
hashCompare(password, hash) == hash = hashDataUsingBcrypt(password)

\* createHmac("sha256", HASH_SECRET).update(data).digest("hex"): a
\* deterministic hexadecimal image of the data, one image per data (no
\* collisions).  Only the server holds the secret, so a client never applies
\* this operator: it can only replay digests the server sent it.
hashDataUsingCrypto(data) == Hex(data)

\* `${otp}.${email}.${expires}.${hashPassword}`
prepareDataForHash(otp, email, expires, hashPassword) ==
    otp \o <<".">> \o email \o <<".">> \o expires \o <<".">> \o hashPassword

\* ------------------------------------------------------------------- state
VARIABLES
    users,        \* user store: set of User rows
    tokens,       \* refresh-token store: set of [id, userId] rows
    nextUserId,   \* next generated primary key of the user table
    nextTokenId,  \* next generated primary key of the refresh-token table
    now,          \* Date.now(), in ms
    calls,        \* handler invocations so far
    issued,       \* sendOtp responses the client holds
    sessions,     \* refresh tokens the client received in cookies
    presented,    \* envelopes some earlier verifyOtp request carried
    consumed,     \* envelopes whose verifyOtp request created a user
    seen,         \* what callers saw of failed logins and of logouts
    req,          \* requests in flight: slot -> handler frame
    routed        \* the request the user router is dispatching

vars == <<users, tokens, nextUserId, nextTokenId, now, calls, issued,
          sessions, presented, consumed, seen, req, routed>>

Slots == 1..MaxReq

EmptyBody == [valid |-> TRUE, fullName |-> <<>>, email |-> <<>>,
              password |-> <<>>, confirmPassword |-> <<>>, otp |-> <<>>,
              hashOtp |-> <<>>, tokenId |-> <<>>, userId |-> <<>>]

\* A handler frame: the request (body), the handler's locals (user,
\* existing, hashPassword, isMatch, tokenRef, at: the clock it read), what
\* it did to the response so far (cookies, out), and where it stands: pc is
\* the await it is suspended at, reached the last statement it ran.
\* regAtStart and replay record what held when the request arrived.
Idle == [kind |-> "idle", pc |-> "idle", body |-> EmptyBody,
         user |-> NoUser, existing |-> NoUser, hashPassword |-> <<>>,
         isMatch |-> FALSE, tokenRef |-> 0, at |-> NaN,
         regAtStart |-> FALSE, replay |-> "new", reached |-> "",
         cookies |-> <<>>, out |-> <<>>]

\* next(createHttpError(status, msg))
NextErr(status, msg) == [t |-> "next", status |-> status, msg |-> msg]

\* next(error) for an error a collaborator threw
Thrown == NextErr(500, "collaborator error")

\* res.status(status).json(body)
Json(status, body) == [t |-> "json", status |-> status, body |-> body]

\* res.status(400).json({ error: result.array() })
ValidationFailed == Json(400, [error |-> "validation"])

Free(s) == req[s].pc \in {"idle", "done"}

\* The slot a new request is put in: the first free one.
FreeSlot(s) == Free(s) /\ \A t \in Slots : t < s => ~Free(t)

\* A frame that ends at statement `at` with one more response event.
Finish(f, at, ev) ==
    [f EXCEPT !.pc = "done", !.reached = at, !.out = @ \o <<ev>>]

\* A frame that suspends at the await pc.
Await(f, pc) == [f EXCEPT !.pc = pc, !.reached = pc]

\* The frames with slot s set to f.  A frame that ended in the previous step
\* has been answered and is gone.
Put(s, f) ==
    [t \in Slots |-> IF t = s THEN f
                     ELSE IF req[t].pc = "done" THEN Idle ELSE req[t]]

Answered == [t \in Slots |-> IF req[t].pc = "done" THEN Idle ELSE req[t]]

\* ---------------------------------------------------------------- user store
\* userRepository.findOne({ where: { email }, select: [..., "password"] })
findUserByEmailWithPassword(email) ==
    IF \E u \in users : u.email = email
    THEN CHOOSE u \in users : u.email = email
    ELSE NoUser

\* userRepository.findOne({ where: { email } }): the password column is not
\* selected.
findUserByEmail(email) ==
    [findUserByEmailWithPassword(email) EXCEPT !.password = <<>>]

Registered(email) == findUserByEmail(email) # NoUser

\* userRepository.findOne({ where: { id } }): the password column is not
\* selected.
findUserById(id) ==
    IF \E u \in users : u.id = id
    THEN [(CHOOSE u \in users : u.id = id) EXCEPT !.password = <<>>]
    ELSE NoUser

\* Variant of saveUserAllowed: the email column is not unique.
saveUserAlways(email) == TRUE

\* userRepository.save(draft) is refused when the draft's email already has
\* a row: the email column is unique.
saveUserAllowed(email) == ~\E u \in users : u.email = email

\* userRepository.save(draft): the row with its generated id.
saveUser(fullName, email, password, role) ==
    [id |-> nextUserId, fullName |-> fullName, email |-> email,
     password |-> password, role |-> role]

\* The user a seeded store starts with.
SeedUser == [id |-> 1, fullName |-> FullName, email |-> <<"a">>,
             password |-> hashDataUsingBcrypt(<<"p">>), role |-> CUSTOMER]

\* --------------------------------------------------------------- token store
\* refreshTokenRepository.save({ user, expiresAt }): the row with its
\* generated id.
saveRefreshToken(user) == [id |-> nextTokenId, userId |-> user.id]

\* refreshTokenRepository.delete({ id }): the rows that remain.  Deleting an
\* id that has no row is not an error.
deleteToken(tokenId) == {t \in tokens : t.id # tokenId}

\* jwt.sign(payload, PRIVATE_KEY, ...)
signAccessToken(payload) ==
    [typ |-> "access", userId |-> payload.userId, role |-> payload.role]

\* jwt.sign(payload, REFRESH_TOKEN_SECRET, ...)
signRefreshToken(payload) ==
    [typ |-> "refresh", userId |-> payload.userId, role |-> payload.role,
     tokenId |-> payload.tokenId]

\* No request at the user router yet.
NoRequest == [pc |-> "idle", method |-> "", path |-> "", token |-> "none",
              upload |-> FALSE, route |-> 0, passed |-> <<>>,
              rejectedBy |-> "", handler |-> ""]

Init ==
    /\ users \in {{}, {SeedUser}}
    /\ nextUserId = Cardinality(users) + 1
    /\ tokens = {}
    /\ nextTokenId = 1
    /\ now = 0
    /\ calls = 0
    /\ issued = {}
    /\ sessions = {}
    /\ presented = {}
    /\ consumed = {}
    /\ seen = {}
    /\ req = [s \in Slots |-> Idle]
    /\ routed = NoRequest

\* The clock advances by the life of an envelope and, from then on, by
\* single milliseconds, up to MaxLate ms past that life.
Tick ==
    /\ \E d \in {1, ttl} :
         /\ now + d <= ttl + MaxLate
         /\ (d = 1 => now >= ttl)
         /\ now' = now + d
    /\ req' = Answered
    /\ UNCHANGED <<routed, users, tokens, nextUserId, nextTokenId, calls, issued,
                   sessions, presented, consumed, seen>>

\* ------------------------------------------------------------------ sendOtp
\* password !== confirmPassword
PasswordMismatch(password, confirmPassword) == password # confirmPassword

\* Variant of AlreadyRegistered: the registered check is missing.
NeverRegistered(user) == FALSE

\* if (user): the lookup found a row
AlreadyRegistered(user) == user # NoUser

EmailRegistered == NextErr(400, "This email already registered!")

\* const hashOtp = `${hashOtpData}#${expires}#${hashPassword}`, from the
\* otp drawn, the expiry computed and the password hash.
MakeHashOtp(otp, email, expiresMs, hashPassword) ==
    LET expires == ToString(expiresMs)
        data == prepareDataForHash(otp, email, expires, hashPassword)
    IN  JoinHash(hashDataUsingCrypto(data), expires, hashPassword)

\* sendOtp up to its second await: validation, the password check, the
\* registered check on what findUserByEmail answers, then the call of
\* hashDataUsingBcrypt.  Before its first await a handler reads nothing but
\* its request, so that part runs here, in the step in which the lookup
\* answers.
SendOtpFind(s) ==
    /\ FreeSlot(s)
    /\ calls < MaxCalls
    /\ \E valid \in BOOLEAN, email \in Emails, cpw \in Passwords,
          ok \in BOOLEAN :
         LET body == IF valid
                     THEN [EmptyBody EXCEPT !.fullName = FullName,
                              !.email = email, !.password = RegPassword,
                              !.confirmPassword = cpw]
                     ELSE [EmptyBody EXCEPT !.valid = FALSE]
             f == [Idle EXCEPT !.kind = "sendOtp", !.body = body,
                      !.regAtStart = Registered(body.email)]
             user == findUserByEmail(body.email)
         IN  req' = Put(s,
                 IF ~body.valid THEN Finish(f, "validation", ValidationFailed)
                 ELSE IF PasswordMismatch(body.password, body.confirmPassword)
                 THEN Finish(f, "mismatch", NextErr(400,
                          "confirm password not match to password!"))
                 ELSE IF ~ok THEN Finish(f, "lookup", Thrown)
                 ELSE IF AlreadyRegistered(user)
                 THEN Finish([f EXCEPT !.existing = user], "registered",
                             EmailRegistered)
                 ELSE Await(f, "hash"))
    /\ calls' = calls + 1
    /\ UNCHANGED <<routed, users, tokens, nextUserId, nextTokenId, now, issued,
                   sessions, presented, consumed, seen>>

\* Variant of SendOtpHash: the email is reserved by a row without a role
\* when the envelope is sent.
SendOtpHashReserving(s) ==
    /\ req[s].kind = "sendOtp" /\ req[s].pc = "hash"
    /\ \E ok \in BOOLEAN, otp \in Otps :
         LET f == req[s]
             hashPassword == hashDataUsingBcrypt(f.body.password)
             hashOtp == MakeHashOtp(otp, f.body.email, now + ttl, hashPassword)
             sent == [fullName |-> f.body.fullName, email |-> f.body.email,
                      hashOtp |-> hashOtp, otp |-> otp]
         IN  IF ~ok
             THEN /\ req' = Put(s, Finish(f, "bcrypt", Thrown))
                  /\ UNCHANGED <<issued, users, nextUserId>>
             ELSE /\ req' = Put(s, Finish([f EXCEPT
                                      !.hashPassword = hashPassword,
                                      !.at = now],
                                   "json", Json(200, sent)))
                  /\ issued' = issued \cup {[sent |-> sent, at |-> now]}
                  /\ users' = IF saveUserAllowed(f.body.email)
                              THEN users \cup {saveUser(f.body.fullName,
                                       f.body.email, hashPassword, "")}
                              ELSE users
                  /\ nextUserId' = nextUserId + 1
    /\ UNCHANGED <<routed, tokens, nextTokenId, now, calls, sessions, presented,
                   consumed, seen>>

\* sendOtp after hashDataUsingBcrypt: the expiry, the otp, the envelope and
\* the response.  The client keeps the response and when it got it.
SendOtpHash(s) ==
    /\ req[s].kind = "sendOtp" /\ req[s].pc = "hash"
    /\ \E ok \in BOOLEAN, otp \in Otps :
         LET f == req[s]
             hashPassword == hashDataUsingBcrypt(f.body.password)
             expires == now + ttl
             hashOtp == MakeHashOtp(otp, f.body.email, expires, hashPassword)
             sent == [fullName |-> f.body.fullName, email |-> f.body.email,
                      hashOtp |-> hashOtp, otp |-> otp]
         IN  IF ~ok
             THEN /\ req' = Put(s, Finish(f, "bcrypt", Thrown))
                  /\ UNCHANGED issued
             ELSE /\ req' = Put(s, Finish([f EXCEPT
                                      !.hashPassword = hashPassword,
                                      !.at = now],
                                   "json", Json(200, sent)))
                  /\ issued' = issued \cup {[sent |-> sent, at |-> now]}
    /\ UNCHANGED <<routed, users, tokens, nextUserId, nextTokenId, now, calls,
                   sessions, presented, consumed, seen>>

\* ---------------------------------------------------------------- verifyOtp
\* What a client that holds the sendOtp response e can present as hashOtp:
\* the envelope itself, and the envelope with one field changed (a later
\* expiresAt, an expires field that takes over the tail of the email after
\* one of its dots or the head of the password hash before one of its dots,
\* another password hash, another digest) or with a field added.  The client
\* never computes a digest.
Presented(e) ==
    LET f == Split(e.hashOtp)
        d == f[1]
        x == f[2]
        h == f[3]
    IN  {e.hashOtp,
         JoinHash(d, ToString(ToNumber(x) + ttl), h),
         JoinHash(d, x, hashDataUsingBcrypt(<<"q">>)),
         JoinHash(<<"0">>, x, h),
         e.hashOtp \o <<"#", "0">>}
        \cup {JoinHash(d, SubSeq(e.email, i + 1, Len(e.email)) \o <<".">> \o x, h) :
                i \in {k \in 1..Len(e.email) : e.email[k] = "."}}
        \cup {JoinHash(d, x \o <<".">> \o SubSeq(h, 1, i - 1),
                        SubSeq(h, i + 1, Len(h))) :
                i \in {k \in 1..Len(h) : h[k] = "."}}

\* The envelopes a verifyOtp request can carry.
Envelopes == {<<"0">>} \cup UNION {Presented(i.sent) : i \in issued}

\* hashOtp.split("#").length !== 3
EnvelopeMalformed(hashOtp) == Len(Split(hashOtp)) # 3

\* Variant of OtpExpired: Date.now() >= +expires.
OtpExpiredAtExpiry(nowMs, expires) ==
    nowMs # NaN /\ ToNumber(expires) # NaN /\ nowMs >= ToNumber(expires)

\* Date.now() > +expires
OtpExpired(nowMs, expires) == Gt(nowMs, ToNumber(expires))

\* hashOtpData !== prevHashedOtp
DigestMismatch(otp, email, expires, hashPassword, prevHashedOtp) ==
    hashDataUsingCrypto(prepareDataForHash(otp, email, expires, hashPassword))
        # prevHashedOtp

\* Variant of VerifyChecks: the digest is compared before the expiry.
VerifyChecksDigestFirst(user, otp, email, hashOtp, nowMs) ==
    IF AlreadyRegistered(user) THEN "registered"
    ELSE IF EnvelopeMalformed(hashOtp) THEN "split"
    ELSE LET f == Split(hashOtp)
         IN  IF DigestMismatch(otp, email, f[2], f[3], f[1]) THEN "digest"
             ELSE IF OtpExpired(nowMs, f[2]) THEN "expiry"
             ELSE "verified"

\* Variant of VerifyChecks: the envelope is checked before the email.
VerifyChecksEnvelopeFirst(user, otp, email, hashOtp, nowMs) ==
    IF EnvelopeMalformed(hashOtp) THEN "split"
    ELSE LET f == Split(hashOtp)
         IN  IF OtpExpired(nowMs, f[2]) THEN "expiry"
             ELSE IF DigestMismatch(otp, email, f[2], f[3], f[1])
                  THEN "digest"
             ELSE IF AlreadyRegistered(user) THEN "registered"
             ELSE "verified"

\* The check verifyOtp ends at, in the order it applies them, or "verified".
VerifyChecks(user, otp, email, hashOtp, nowMs) ==
    IF AlreadyRegistered(user) THEN "registered"
    ELSE IF EnvelopeMalformed(hashOtp) THEN "split"
    ELSE LET f == Split(hashOtp)
         IN  IF OtpExpired(nowMs, f[2]) THEN "expiry"
             ELSE IF DigestMismatch(otp, email, f[2], f[3], f[1])
                  THEN "digest"
             ELSE "verified"

OtpInvalid == NextErr(400, "Otp is invalid!")
OtpExpiredErr == NextErr(408, "Otp is expired!")

\* Variant of VerifyError: a malformed envelope has a message of its own.
VerifyErrorTelling(check) ==
    CASE check = "registered" -> EmailRegistered
      [] check = "split" -> NextErr(400, "Otp is malformed!")
      [] check = "expiry" -> OtpExpiredErr
      [] check = "digest" -> OtpInvalid

\* The error each failed check of verifyOtp passes to next.
VerifyError(check) ==
    CASE check = "registered" -> EmailRegistered
      [] check = "split" -> OtpInvalid
      [] check = "expiry" -> OtpExpiredErr
      [] check = "digest" -> OtpInvalid

\* { userId: String(user.id), role: user.role }
Payload(user) == [userId |-> ToString(user.id), role |-> user.role]

\* res.cookie(name, value, ...)
SetCookie(name, value) == [op |-> "set", name |-> name, value |-> value]

\* res.clearCookie(name)
ClearCookie(name) == [op |-> "clear", name |-> name]

\* verifyOtp up to its second await: validation, the registered check on
\* what findUserByEmail answers, the envelope checks, then the call of
\* saveUser.
VerifyOtpFind(s) ==
    /\ FreeSlot(s)
    /\ calls < MaxCalls
    /\ \E valid \in BOOLEAN, email \in Emails, otp \in Otps,
          hashOtp \in Envelopes, ok \in BOOLEAN :
         LET body == IF valid
                     THEN [EmptyBody EXCEPT !.fullName = FullName,
                              !.email = email, !.otp = otp,
                              !.hashOtp = hashOtp]
                     ELSE [EmptyBody EXCEPT !.valid = FALSE]
             f == [Idle EXCEPT !.kind = "verifyOtp", !.body = body,
                      !.regAtStart = Registered(body.email),
                      !.replay = IF body.hashOtp \in consumed THEN "used"
                                 ELSE IF body.hashOtp \in presented
                                      THEN "tried" ELSE "new"]
             user == findUserByEmail(body.email)
             check == VerifyChecks(user, body.otp, body.email, body.hashOtp,
                                   now)
             g == [f EXCEPT !.existing = user,
                            !.at = IF check \in {"registered", "split"}
                                   THEN NaN ELSE now]
         IN  /\ req' = Put(s,
                   IF ~body.valid THEN Finish(f, "validation", ValidationFailed)
                   ELSE IF ~ok THEN Finish(f, "lookup", Thrown)
                   ELSE IF check # "verified"
                        THEN Finish(g, check, VerifyError(check))
                   ELSE Await([g EXCEPT
                                 !.hashPassword = Split(body.hashOtp)[3]],
                              "save"))
             /\ presented' = IF body.valid
                             THEN presented \cup {body.hashOtp}
                             ELSE presented
    /\ calls' = calls + 1
    /\ UNCHANGED <<routed, users, tokens, nextUserId, nextTokenId, now, issued,
                   sessions, consumed, seen>>

\* Variant of VerifyOtpSave: the row is in the store also when saveUser
\* throws after writing it.
VerifyOtpSavePartial(s) ==
    /\ req[s].kind = "verifyOtp" /\ req[s].pc = "save"
    /\ \E ok \in BOOLEAN, signOk \in BOOLEAN :
         LET f == req[s]
             user == saveUser(f.body.fullName, f.body.email, f.hashPassword,
                              CUSTOMER)
             g == [f EXCEPT !.user = user]
         IN  IF ~saveUserAllowed(f.body.email)
             THEN /\ req' = Put(s, Finish([f EXCEPT !.out = @ \o <<Thrown>>],
                                  "unique",
                                  NextErr(500, "Internal Server Error!")))
                  /\ UNCHANGED <<users, nextUserId, consumed>>
             ELSE /\ users' = users \cup {user}
                  /\ nextUserId' = nextUserId + 1
                  /\ consumed' = consumed \cup {f.body.hashOtp}
                  /\ req' = Put(s,
                        IF ~ok
                        THEN Finish([f EXCEPT !.out = @ \o <<Thrown>>],
                                 "saveUser",
                                 NextErr(500, "Internal Server Error!"))
                        ELSE IF ~signOk
                             THEN Finish(g, "signAccess", Thrown)
                        ELSE Await(g, "token"))
    /\ UNCHANGED <<routed, tokens, nextTokenId, now, calls, issued, sessions,
                   presented, seen>>

\* verifyOtp after saveUser: the user row, the payload and the access
\* token, then the call of saveRefreshToken.  When saveUser throws, the
\* catch block calls next(error) and does not return, so the !user test
\* that follows calls next once more.
VerifyOtpSave(s) ==
    /\ req[s].kind = "verifyOtp" /\ req[s].pc = "save"
    /\ \E ok \in BOOLEAN, signOk \in BOOLEAN :
         LET f == req[s]
             user == saveUser(f.body.fullName, f.body.email, f.hashPassword,
                              CUSTOMER)
             g == [f EXCEPT !.user = user]
         IN  IF ~ok \/ ~saveUserAllowed(f.body.email)
             THEN /\ req' = Put(s, Finish([f EXCEPT !.out = @ \o <<Thrown>>],
                                  IF ok THEN "unique" ELSE "saveUser",
                                  NextErr(500, "Internal Server Error!")))
                  /\ UNCHANGED <<users, nextUserId, consumed>>
             ELSE /\ users' = users \cup {user}
                  /\ nextUserId' = nextUserId + 1
                  /\ consumed' = consumed \cup {f.body.hashOtp}
                  /\ req' = Put(s, IF ~signOk
                                   THEN Finish(g, "signAccess", Thrown)
                                   ELSE Await(g, "token"))
    /\ UNCHANGED <<routed, tokens, nextTokenId, now, calls, issued, sessions,
                   presented, seen>>

\* Variant of TokenIdOf: tokenId: String(user.id).
TokenIdFromUser(user, tokenRef) == ToString(user.id)

\* tokenId: String(tokenRef.id)
TokenIdOf(user, tokenRef) == ToString(tokenRef.id)

\* The frame after saveRefreshToken returned tokenRef: the refresh token is
\* signed and both cookies are set.
WithCookies(f, tokenRef) ==
    LET payload == Payload(f.user)
        accessToken == signAccessToken(payload)
        refreshToken == signRefreshToken(
            [userId |-> payload.userId, role |-> payload.role,
             tokenId |-> TokenIdOf(f.user, tokenRef)])
    IN  [f EXCEPT !.tokenRef = tokenRef.id,
                  !.cookies = <<SetCookie("accessToken", accessToken),
                                SetCookie("refreshToken", refreshToken)>>]

\* Variant of IssueSession: the cookies are set before saveRefreshToken is
\* awaited.
IssueSessionCookiesFirst(f, tokenRef, saved, signOk, body) ==
    IF ~saved \/ ~signOk
    THEN Finish(WithCookies(f, tokenRef),
                IF saved THEN "signRefresh" ELSE "saveToken", Thrown)
    ELSE Finish(WithCookies(f, tokenRef), "json", Json(200, body))

\* The "create cookies" block of verifyOtp and login once saveRefreshToken
\* has answered (saved: it returned tokenRef; otherwise it threw), followed
\* by res.json(body).
IssueSession(f, tokenRef, saved, signOk, body) ==
    IF ~saved THEN Finish(f, "saveToken", Thrown)
    ELSE IF ~signOk
         THEN Finish([f EXCEPT !.tokenRef = tokenRef.id], "signRefresh",
                     Thrown)
    ELSE Finish(WithCookies(f, tokenRef), "json", Json(200, body))

\* The refresh token a frame put in its cookie.
RefreshOf(f) == f.cookies[2].value

\* The session step of slot s, answering with body.
SessionStep(s, body) ==
    \E saved \in BOOLEAN, signOk \in BOOLEAN :
       LET f == req[s]
           tokenRef == saveRefreshToken(f.user)
           g == IssueSession(f, tokenRef, saved, signOk, body)
       IN  /\ req' = Put(s, g)
           /\ tokens' = IF saved THEN tokens \cup {tokenRef} ELSE tokens
           /\ nextTokenId' = IF saved THEN nextTokenId + 1 ELSE nextTokenId
           /\ sessions' = IF g.cookies # <<>>
                          THEN sessions \cup {RefreshOf(g)} ELSE sessions

\* verifyOtp after saveRefreshToken: the refresh token, the two cookies and
\* res.json(user).
VerifyOtpToken(s) ==
    /\ req[s].kind = "verifyOtp" /\ req[s].pc = "token"
    /\ SessionStep(s, req[s].user)
    /\ UNCHANGED <<routed, users, nextUserId, now, calls, issued, presented,
                   consumed, seen>>

\* -------------------------------------------------------------------- login
\* Variant of UnknownEmailErr: the lookup miss has its own error.
UserNotFoundErr == NextErr(404, "User not found!")

\* createHttpError(400, "Email or Password does not match!") of the lookup
UnknownEmailErr == NextErr(400, "Email or Password does not match!")

\* createHttpError(400, "Email or Password does not match!") of the compare
WrongPasswordErr == NextErr(400, "Email or Password does not match!")

\* password: null
Null == <<"null">>

\* What the caller of a request that ended saw of it.
Observed(f, case) ==
    [kind |-> f.kind, case |-> case, out |-> f.out, cookies |-> f.cookies]

\* login up to its second await: validation, the lookup with the password
\* hash, then the call of hashCompare.
LoginFind(s) ==
    /\ FreeSlot(s)
    /\ calls < MaxCalls
    /\ \E valid \in BOOLEAN, email \in Emails, password \in Passwords,
          ok \in BOOLEAN :
         LET body == IF valid
                     THEN [EmptyBody EXCEPT !.email = email,
                              !.password = password]
                     ELSE [EmptyBody EXCEPT !.valid = FALSE]
             f == [Idle EXCEPT !.kind = "login", !.body = body,
                      !.regAtStart = Registered(body.email)]
             user == findUserByEmailWithPassword(body.email)
             g == IF ~body.valid THEN Finish(f, "validation", ValidationFailed)
                  ELSE IF ~ok THEN Finish(f, "lookup", Thrown)
                  ELSE IF user = NoUser
                       THEN Finish(f, "unknown", UnknownEmailErr)
                  ELSE Await([f EXCEPT !.user = user], "cmp")
         IN  /\ req' = Put(s, g)
             /\ seen' = IF g.reached = "unknown"
                        THEN seen \cup {Observed(g, "unknown")} ELSE seen
    /\ calls' = calls + 1
    /\ UNCHANGED <<routed, users, tokens, nextUserId, nextTokenId, now, issued,
                   sessions, presented, consumed>>

\* login after hashCompare: the mismatch error, or the payload and the
\* access token, then the call of saveRefreshToken.
LoginCompare(s) ==
    /\ req[s].kind = "login" /\ req[s].pc = "cmp"
    /\ \E ok \in BOOLEAN, signOk \in BOOLEAN :
         LET f == req[s]
             isMatch == hashCompare(f.body.password, f.user.password)
             g == IF ~ok THEN Finish(f, "compare", Thrown)
                  ELSE IF ~isMatch
                       THEN Finish(f, "wrongpw", WrongPasswordErr)
                  ELSE IF ~signOk
                       THEN Finish([f EXCEPT !.isMatch = TRUE], "signAccess",
                                   Thrown)
                  ELSE Await([f EXCEPT !.isMatch = TRUE], "token")
         IN  /\ req' = Put(s, g)
             /\ seen' = IF g.reached = "wrongpw"
                        THEN seen \cup {Observed(g, "wrongpw")} ELSE seen
    /\ UNCHANGED <<routed, users, tokens, nextUserId, nextTokenId, now, calls, issued,
                   sessions, presented, consumed>>

\* login after saveRefreshToken: the refresh token, the two cookies and
\* res.json({ ...user, password: null }).
LoginToken(s) ==
    /\ req[s].kind = "login" /\ req[s].pc = "token"
    /\ SessionStep(s, [req[s].user EXCEPT !.password = Null])
    /\ UNCHANGED <<routed, users, nextUserId, now, calls, issued, presented,
                   consumed, seen>>

\* --------------------------------------------------------------------- self
SelfNotFoundErr == NextErr(400, "User not found!")

\* self, for a session whose token the auth middleware accepted: the call
\* of findUserById and, when it answers, the error for a missing user or
\* res.json(user).  The handler reads nothing before the call, so it is one
\* step.
Self(s) ==
    /\ FreeSlot(s)
    /\ calls < MaxCalls
    /\ \E auth \in sessions, ok \in BOOLEAN :
         LET user == findUserById(ToNumber(auth.userId))
             f == [Idle EXCEPT !.kind = "self",
                      !.body = [EmptyBody EXCEPT !.userId = auth.userId],
                      !.existing = IF ok THEN user ELSE NoUser]
         IN  req' = Put(s,
                 IF ~ok THEN Finish(f, "lookup", Thrown)
                 ELSE IF user = NoUser
                      THEN Finish(f, "unknown", SelfNotFoundErr)
                 ELSE Finish(f, "json", Json(200, user)))
    /\ calls' = calls + 1
    /\ UNCHANGED <<routed, users, tokens, nextUserId, nextTokenId, now, issued,
                   sessions, presented, consumed, seen>>

\* ------------------------------------------------------------------- logout
\* Variant of LogoutTokenId: const tokenId = Number(req.auth.userId).
LogoutUserId(auth) == ToNumber(auth.userId)

\* const tokenId = Number(req.auth.tokenId)
LogoutTokenId(auth) == ToNumber(auth.tokenId)

LoggedOut ==
    Json(200, [user |-> Null, message |-> "User successfully logout."])

\* Variant of LogoutAnswer: a logout that finds no record is an error.
LogoutAnswerStrict(f, found) ==
    IF found
    THEN Finish([f EXCEPT !.cookies = <<ClearCookie("accessToken"),
                                        ClearCookie("refreshToken")>>],
                "json", LoggedOut)
    ELSE Finish(f, "json", NextErr(404, "Token not found!"))

\* logout once deleteToken has answered: both cookies are cleared and the
\* success response is sent, whether or not a row was found.
LogoutAnswer(f, found) ==
    Finish([f EXCEPT !.cookies = <<ClearCookie("accessToken"),
                                   ClearCookie("refreshToken")>>],
           "json", LoggedOut)

\* Variant of Logout: every refresh-token record of the session's user is
\* deleted.
LogoutEverywhere(s) ==
    /\ FreeSlot(s)
    /\ calls < MaxCalls
    /\ \E auth \in sessions, ok \in BOOLEAN :
         LET tokenId == LogoutTokenId(auth)
             found == \E t \in tokens : t.id = tokenId
             f == [Idle EXCEPT !.kind = "logout",
                      !.body = [EmptyBody EXCEPT !.tokenId = auth.tokenId,
                                                 !.userId = auth.userId],
                      !.tokenRef = tokenId]
             g == IF ~ok THEN Finish(f, "deleteToken", Thrown)
                  ELSE LogoutAnswer(f, found)
         IN  /\ req' = Put(s, g)
             /\ tokens' = IF ok
                          THEN {t \in tokens :
                                  t.userId # ToNumber(auth.userId)}
                          ELSE tokens
             /\ seen' = IF ok
                        THEN seen \cup {Observed(g, IF found THEN "found"
                                                    ELSE "gone")}
                        ELSE seen
    /\ calls' = calls + 1
    /\ UNCHANGED <<routed, users, nextUserId, nextTokenId, now, issued, sessions,
                   presented, consumed>>

\* logout, for a session whose token the auth middleware accepted: the call
\* of deleteToken and, when it answers, the cleared cookies and the
\* response.  The handler reads nothing before the call, so it is one step.
Logout(s) ==
    /\ FreeSlot(s)
    /\ calls < MaxCalls
    /\ \E auth \in sessions, ok \in BOOLEAN :
         LET tokenId == LogoutTokenId(auth)
             found == \E t \in tokens : t.id = tokenId
             f == [Idle EXCEPT !.kind = "logout",
                      !.body = [EmptyBody EXCEPT !.tokenId = auth.tokenId,
                                                 !.userId = auth.userId],
                      !.tokenRef = tokenId]
             g == IF ~ok THEN Finish(f, "deleteToken", Thrown)
                  ELSE LogoutAnswer(f, found)
         IN  /\ req' = Put(s, g)
             /\ tokens' = IF ok THEN deleteToken(tokenId) ELSE tokens
             /\ seen' = IF ok
                        THEN seen \cup {Observed(g, IF found THEN "found"
                                                    ELSE "gone")}
                        ELSE seen
    /\ calls' = calls + 1
    /\ UNCHANGED <<routed, users, nextUserId, nextTokenId, now, issued, sessions,
                   presented, consumed>>

\* -------------------------------------------------------------- user routes
ADMIN == "admin"

\* Variant of Routes: DELETE /:userId is registered without the permission
\* middleware.
RoutesOpenDelete ==
    <<[method |-> "GET", path |-> "/:userId", handler |-> "getOne",
       chain |-> <<"checkAccessToken", "permissionMiddleware">>],
      [method |-> "GET", path |-> "/", handler |-> "getAll",
       chain |-> <<"checkAccessToken", "permissionMiddleware">>],
      [method |-> "DELETE", path |-> "/:userId", handler |-> "delete",
       chain |-> <<"checkAccessToken">>],
      [method |-> "DELETE", path |-> "/", handler |-> "deleteMySelf",
       chain |-> <<"checkAccessToken">>],
      [method |-> "POST", path |-> "/update-full-name",
       handler |-> "updateFullName",
       chain |-> <<"updateFullNameDataValidator", "checkAccessToken">>],
      [method |-> "POST", path |-> "/upload-profile-picture",
       handler |-> "uploadProfilePicture",
       chain |-> <<"checkAccessToken", "multerMiddleware">>],
      [method |-> "POST", path |-> "/change-password",
       handler |-> "changePassword",
       chain |-> <<"changePasswordDataValidator", "checkAccessToken">>],
      [method |-> "POST", path |-> "/send-otp-for-email-change",
       handler |-> "sendOtpForChangeEmail",
       chain |-> <<"emailValidator", "checkAccessToken">>],
      [method |-> "POST", path |-> "/verify-otp-for-email-change",
       handler |-> "verifyOtpForChangeEmail",
       chain |-> <<"verifyOtpDataValidator", "checkAccessToken">>],
      [method |-> "POST", path |-> "/send-otp-to-new-email-for-email-change",
       handler |-> "sendOtpForChangeEmailToNewEmail",
       chain |-> <<"emailValidator", "checkAccessToken">>],
      [method |-> "POST", path |-> "/verify-new-email-for-email-change",
       handler |-> "verifyOtpForChangeEmailByNewEmail",
       chain |-> <<"verifyOtpDataValidator", "checkAccessToken">>]>>

\* The routes of the user router in the order they are registered: method,
\* path, the middlewares in front of the handler, and the UserController
\* method the handler calls.
Routes ==
    <<[method |-> "GET", path |-> "/:userId", handler |-> "getOne",
       chain |-> <<"checkAccessToken", "permissionMiddleware">>],
      [method |-> "GET", path |-> "/", handler |-> "getAll",
       chain |-> <<"checkAccessToken", "permissionMiddleware">>],
      [method |-> "DELETE", path |-> "/:userId", handler |-> "delete",
       chain |-> <<"checkAccessToken", "permissionMiddleware">>],
      [method |-> "DELETE", path |-> "/", handler |-> "deleteMySelf",
       chain |-> <<"checkAccessToken">>],
      [method |-> "POST", path |-> "/update-full-name",
       handler |-> "updateFullName",
       chain |-> <<"updateFullNameDataValidator", "checkAccessToken">>],
      [method |-> "POST", path |-> "/upload-profile-picture",
       handler |-> "uploadProfilePicture",
       chain |-> <<"checkAccessToken", "multerMiddleware">>],
      [method |-> "POST", path |-> "/change-password",
       handler |-> "changePassword",
       chain |-> <<"changePasswordDataValidator", "checkAccessToken">>],
      [method |-> "POST", path |-> "/send-otp-for-email-change",
       handler |-> "sendOtpForChangeEmail",
       chain |-> <<"emailValidator", "checkAccessToken">>],
      [method |-> "POST", path |-> "/verify-otp-for-email-change",
       handler |-> "verifyOtpForChangeEmail",
       chain |-> <<"verifyOtpDataValidator", "checkAccessToken">>],
      [method |-> "POST", path |-> "/send-otp-to-new-email-for-email-change",
       handler |-> "sendOtpForChangeEmailToNewEmail",
       chain |-> <<"emailValidator", "checkAccessToken">>],
      [method |-> "POST", path |-> "/verify-new-email-for-email-change",
       handler |-> "verifyOtpForChangeEmailByNewEmail",
       chain |-> <<"verifyOtpDataValidator", "checkAccessToken">>]>>

Methods == {"GET", "DELETE", "POST"}

\* The paths a request asks for: each path of the table, with a user id in
\* the place of the parameter.
Paths == {"/", "/7"} \cup {Routes[i].path : i \in 5..Len(Routes)}

\* What a request carries as access token: none that verifies, or one that
\* verifies, with the role of its payload.
Tokens == {"none", CUSTOMER, ADMIN}

\* The route's method and path match the request; /:userId matches every
\* path of one non-empty segment.
Matches(r, method, path) ==
    /\ r.method = method
    /\ IF r.path = "/:userId" THEN path # "/" ELSE r.path = path

\* The first route registered that matches, or 0.
FirstMatch(method, path) ==
    IF \E i \in 1..Len(Routes) : Matches(Routes[i], method, path)
    THEN CHOOSE i \in 1..Len(Routes) :
            /\ Matches(Routes[i], method, path)
            /\ \A j \in 1..(i - 1) : ~Matches(Routes[j], method, path)
    ELSE 0

\* checkAccessToken calls next() for a request whose access token verifies
\* and sets req.auth from its payload.
checkAccessToken(q) == q.token # "none"

\* permissionMiddleware(roles) calls next() when req.auth.role is one of
\* roles.
permissionMiddleware(roles, q) ==
    /\ \E i \in 1..Len(q.passed) : q.passed[i] = "checkAccessToken"
    /\ q.token \in roles

\* The middleware named m lets the request through.  A validator records
\* what it finds and always calls next(); multer fails on a bad upload.
Passes(m, q) ==
    CASE m = "checkAccessToken" -> checkAccessToken(q)
      [] m = "permissionMiddleware" -> permissionMiddleware({ADMIN}, q)
      [] m = "multerMiddleware" -> q.upload
      [] OTHER -> TRUE

\* A request arrives at the user router and is matched against the routes.
Dispatch ==
    /\ routed.pc = "idle"
    /\ \E method \in Methods, path \in Paths, token \in Tokens,
          upload \in BOOLEAN :
         LET i == FirstMatch(method, path)
         IN  routed' = [NoRequest EXCEPT !.method = method, !.path = path,
                           !.token = token, !.upload = upload, !.route = i,
                           !.pc = IF i = 0 THEN "done" ELSE "chain"]
    /\ UNCHANGED <<users, tokens, nextUserId, nextTokenId, now, calls,
                   issued, sessions, presented, consumed, seen, req>>

\* The next middleware of the matched route runs: it calls next() or it
\* ends the request with an error.
Middleware ==
    /\ routed.pc = "chain"
    /\ Len(routed.passed) < Len(Routes[routed.route].chain)
    /\ LET m == Routes[routed.route].chain[Len(routed.passed) + 1]
       IN  routed' = IF Passes(m, routed)
                     THEN [routed EXCEPT !.passed = Append(@, m)]
                     ELSE [routed EXCEPT !.pc = "done", !.rejectedBy = m]
    /\ UNCHANGED <<users, tokens, nextUserId, nextTokenId, now, calls,
                   issued, sessions, presented, consumed, seen, req>>

\* Every middleware of the matched route called next(): the handler runs.
Handler ==
    /\ routed.pc = "chain"
    /\ Len(routed.passed) = Len(Routes[routed.route].chain)
    /\ routed' = [routed EXCEPT !.pc = "done",
                                !.handler = Routes[routed.route].handler]
    /\ UNCHANGED <<users, tokens, nextUserId, nextTokenId, now, calls,
                   issued, sessions, presented, consumed, seen, req>>

RouteNext == Dispatch \/ Middleware \/ Handler

RouteSpec == Init /\ [][RouteNext]_vars

\* ------------------------------------------------------------ specification
Next ==
    \/ Tick
    \/ \E s \in Slots : SendOtpFind(s)
    \/ \E s \in Slots : SendOtpHash(s)
    \/ \E s \in Slots : VerifyOtpFind(s)
    \/ \E s \in Slots : VerifyOtpSave(s)
    \/ \E s \in Slots : VerifyOtpToken(s)
    \/ \E s \in Slots : LoginFind(s)
    \/ \E s \in Slots : LoginCompare(s)
    \/ \E s \in Slots : LoginToken(s)
    \/ \E s \in Slots : Self(s)
    \/ \E s \in Slots : Logout(s)

Spec == Init /\ [][Next]_vars

\* ------------------------------------------------------------------- claims
Frames == {req[s] : s \in Slots}

IsVerify(f) == f.kind = "verifyOtp"

\* The slot whose handler ran in this step.
Acts(s) == req'[s] # req[s] /\ req'[s].pc # "idle"

\* verifyOtp passed every check of the envelope and went on to saveUser.
Verified(f) ==
    /\ IsVerify(f)
    /\ f.reached \in {"save", "unique", "saveUser", "signAccess", "token",
                      "saveToken", "signRefresh", "json"}

\* verifyOtp got past the registered check: its lookup answered, with no
\* user.
ReachedEnvelope(f) ==
    /\ IsVerify(f)
    /\ f.reached \notin {"", "validation", "lookup", "registered"}

\* The envelope of a request has 3 fields, is unexpired at time t and
\* carries the digest of (otp, email, expiresAt, passwordHash).
EnvelopeGood(body, t) ==
    LET fl == Split(body.hashOtp)
    IN  /\ Len(fl) = 3
        /\ ToNumber(fl[2]) # NaN
        /\ t # NaN
        /\ t <= ToNumber(fl[2])
        /\ hashDataUsingCrypto(
             prepareDataForHash(body.otp, body.email, fl[2], fl[3])) = fl[1]

\* C1, first sentence: a verifyOtp request for an unregistered email is
\* verified if and only if its envelope has 3 fields, the clock it read is
\* <= the envelope's expiresAt, and the recomputed digest equals the
\* envelope's digest.
C1_VerifiedIff ==
    \A f \in Frames :
        ReachedEnvelope(f) => (Verified(f) <=> EnvelopeGood(f.body, f.at))

\* C1, second sentence: an issued envelope that verifies now no longer
\* verifies with exactly one of otp, email, expiresAt, passwordHash changed.
C1_OneChangeFails ==
    \A i \in issued :
        LET e == i.sent
            fl == Split(e.hashOtp)
            Try(otp, email, x, h) ==
                VerifyChecks(NoUser, otp, email, JoinHash(fl[1], x, h), now)
        IN  Try(e.otp, e.email, fl[2], fl[3]) = "verified" =>
              /\ \A otp \in Otps \ {e.otp} :
                    Try(otp, e.email, fl[2], fl[3]) # "verified"
              /\ \A email \in Emails \ {e.email} :
                    Try(e.otp, email, fl[2], fl[3]) # "verified"
              /\ \A x \in {ToString(ToNumber(fl[2]) + ttl),
                           ToString(ToNumber(fl[2]) + 1),
                           <<"b", ".">> \o fl[2], <<>>} :
                    Try(e.otp, e.email, x, fl[3]) # "verified"
              /\ \A h \in {hashDataUsingBcrypt(<<"q">>), <<>>} :
                    Try(e.otp, e.email, fl[2], h) # "verified"

\* C1: for every verifyOtp request whose email is not registered,
\* verification succeeds if and only if the envelope has exactly 3 fields,
\* the current time is <= its expiresAt and the recomputed digest equals its
\* digest field; and changing exactly one of otp, email, expiresAt,
\* passwordHash of an envelope that verifies makes verification fail.
C1_Claim == C1_VerifiedIff /\ C1_OneChangeFails

\* A verifyOtp request that passed every check with an envelope whose
\* expires field is not a number.
C1_NeverExpires ==
    \E f \in Frames :
        /\ Verified(f)
        /\ ToNumber(Split(f.body.hashOtp)[2]) = NaN

\* The clock values an envelope is tried at.
Times == {k * ttl + j : k \in 0..2, j \in 0..(MaxLate + 1)}

\* The frame f carries the response i of sendOtp as it was sent: the
\* envelope, its otp and its email.
Carries(f, i) ==
    /\ f.body.hashOtp = i.sent.hashOtp
    /\ f.body.otp = i.sent.otp
    /\ f.body.email = i.sent.email

\* C2: an envelope issued by sendOtp at time t expires at t + 10 minutes; a
\* verifyOtp that carries it with the right otp and reaches the expiry
\* check at a time <= expiresAt (expiresAt included) is not rejected as
\* expired, one at a time >= expiresAt + 1 ms ends with the OTP-expired
\* error (status 408), and an envelope rejected as expired is rejected as
\* expired at every later time.
C2_ExpiryBoundary ==
    \A f \in Frames : \A i \in issued :
        (ReachedEnvelope(f) /\ Carries(f, i)) =>
            LET expiresAt == i.at + ttl
                expires == Split(f.body.hashOtp)[2]
            IN  /\ ToNumber(expires) = expiresAt
                /\ f.at # NaN
                /\ f.at <= expiresAt => (f.reached # "expiry" /\ Verified(f))
                /\ f.at >= expiresAt + 1 =>
                      /\ f.pc = "done"
                      /\ f.reached = "expiry"
                      /\ f.out = <<NextErr(408, "Otp is expired!")>>
                /\ f.reached = "expiry" =>
                      \A t \in Times : t >= f.at => OtpExpired(t, expires)

\* One request verified exactly at expiresAt and, a millisecond later,
\* another rejected as expired with the same envelope.
C2_AtAndAfterExpiry ==
    \E f \in Frames, g \in Frames, i \in issued :
        /\ ReachedEnvelope(f) /\ Carries(f, i)
        /\ ReachedEnvelope(g) /\ Carries(g, i)
        /\ f.at = i.at + ttl /\ Verified(f)
        /\ g.at = i.at + ttl + 1 /\ g.reached = "expiry"

\* C3: under any interleaving of sendOtp and verifyOtp requests for the
\* same email, the user store never holds two users with that email, the
\* user a verifyOtp request created is a row of the store, and no two
\* requests in flight created a user for the same email.
C3_OneUserPerEmail ==
    /\ \A u \in users, v \in users : u.email = v.email => u = v
    /\ \A f \in Frames : (IsVerify(f) /\ f.user # NoUser) => f.user \in users
    /\ \A s \in Slots, t \in Slots :
          (/\ s # t
           /\ IsVerify(req[s]) /\ req[s].user # NoUser
           /\ IsVerify(req[t]) /\ req[t].user # NoUser)
          => req[s].body.email # req[t].body.email

\* Two verifyOtp requests for one email passed the registered check; one
\* created the user and the other's saveUser was refused.
C3_RaceLost ==
    \E f \in Frames :
        /\ IsVerify(f) /\ f.reached = "unique"
        /\ ~f.regAtStart
        /\ \E u \in users : u.email = f.body.email

C5_ConflictAfterRegistration ==
    \A f \in Frames :
        (IsVerify(f) /\ f.regAtStart) =>
            /\ f.pc = "done"
            /\ f.user = NoUser
            /\ f.tokenRef = 0
            /\ f.cookies = <<>>
            /\ \/ f.reached = "lookup" /\ f.out = <<Thrown>>
               \/ f.out = <<NextErr(400, "This email already registered!")>>

\* A verifyOtp created a user for the email, and a later verifyOtp for that
\* email, with another envelope, is refused as a conflict.
C5_SecondVerify ==
    \E f \in Frames :
        /\ IsVerify(f) /\ f.regAtStart
        /\ f.reached = "registered"
        /\ f.replay # "used"
        /\ \E u \in users : u.email = f.body.email /\ u # SeedUser
        /\ consumed # {}

IsSession(f) == f.kind \in {"login", "verifyOtp"}

\* C6: in login and verifyOtp a cookie is set only in a request whose
\* refresh-token record was persisted, and a failed saveRefreshToken ends
\* the request with an error and without a cookie; a refresh token the
\* client holds names a record that was persisted.
C6_NoCookieWithoutRecord ==
    /\ \A f \in Frames :
          IsSession(f) =>
            /\ f.cookies # <<>> =>
                  /\ f.reached = "json"
                  /\ [id |-> f.tokenRef, userId |-> f.user.id] \in tokens
            /\ f.reached = "saveToken" =>
                  /\ f.pc = "done"
                  /\ f.out = <<Thrown>>
                  /\ f.cookies = <<>>
    /\ \A r \in sessions :
          ToNumber(r.tokenId) \in 1..(nextTokenId - 1)

\* saveRefreshToken failed in a login.
C6_SaveFailed ==
    \E f \in Frames : f.kind = "login" /\ f.reached = "saveToken"

\* What C7 asks of one step of the handler in slot s.
C7_Step(s) ==
    LET f == req[s]
        g == req'[s]
        userId == ToString(g.user.id)
    IN  IsSession(g) =>
          /\ g.reached = "json" =>
                /\ g.user.id # 0
                /\ \E u \in users : u.id = g.user.id /\ u.role = g.user.role
                /\ ~\E t \in tokens : t.id = g.tokenRef
                /\ tokens' = tokens \cup {[id |-> g.tokenRef,
                                           userId |-> g.user.id]}
                /\ g.cookies =
                     <<SetCookie("accessToken",
                           [typ |-> "access", userId |-> userId,
                            role |-> g.user.role]),
                       SetCookie("refreshToken",
                           [typ |-> "refresh", userId |-> userId,
                            role |-> g.user.role,
                            tokenId |-> ToString(g.tokenRef)])>>
          /\ f.pc # "token" => tokens' = tokens
          /\ (g.kind = "login" /\ g.reached \in {"unknown", "wrongpw"}) =>
                /\ tokens' = tokens
                /\ g.tokenRef = 0
                /\ g.cookies = <<>>

\* C7: every successful login and verifyOtp creates exactly one new
\* refresh-token record, owned by the authenticated user, and sets an
\* access token carrying that user's {userId, role} and a refresh token
\* whose tokenId is the id of that record; no other step of the handler
\* touches the token store, and a login that fails on the email or the
\* password creates no record and sets no cookie.
C7_OneRecordPerSession == [][\A s \in Slots : Acts(s) => C7_Step(s)]_vars

\* A second login of a user succeeded.
C7_LoggedIn ==
    \E f \in Frames :
        /\ f.kind = "login" /\ f.reached = "json"
        /\ f.tokenRef # f.user.id

\* C8: a login with an unknown email and a login with a known email and a
\* wrong password are answered alike (same status 400, same message, no
\* cookie), and neither changes the user store or the token store.
C8_SameLoginError ==
    [][\A s \in Slots :
          (/\ Acts(s)
           /\ req'[s].kind = "login"
           /\ req'[s].reached \in {"unknown", "wrongpw"})
          => /\ users' = users
             /\ tokens' = tokens
             /\ Len(req'[s].out) = 1
             /\ req'[s].out[1].status = 400
             /\ \A o \in seen' :
                   o.kind = "login" =>
                      o.out = req'[s].out /\ o.cookies = req'[s].cookies]_vars

\* Both kinds of failed login have been answered.
C8_BothSeen ==
    \E a \in seen, b \in seen :
        /\ a.kind = "login" /\ a.case = "unknown"
        /\ b.kind = "login" /\ b.case = "wrongpw"

\* C9: every logout whose deleteToken answered clears the accessToken and
\* the refreshToken cookie and reports success, and a logout that found no
\* record is answered exactly like one that found it.
C9_LogoutAlike ==
    \A a \in seen :
        a.kind = "logout" =>
            /\ a.cookies = <<ClearCookie("accessToken"),
                             ClearCookie("refreshToken")>>
            /\ Len(a.out) = 1
            /\ a.out[1].t = "json" /\ a.out[1].status = 200
            /\ \A b \in seen :
                  b.kind = "logout" =>
                     a.out = b.out /\ a.cookies = b.cookies

\* A logout found its record and a repeated one did not.
C9_RepeatedLogout ==
    \E a \in seen, b \in seen :
        /\ a.kind = "logout" /\ a.case = "found"
        /\ b.kind = "logout" /\ b.case = "gone"

HasToken(rows, k) == \E t \in rows : t.id = k

\* C10: a logout whose deleteToken answered leaves no record with the
\* token id it was given, and an id that was generated and has no record
\* has none in any later state: no login or registration creates it again.
C10_RevocationPermanent ==
    [][/\ \A k \in 1..(nextTokenId - 1) :
             ~HasToken(tokens, k) => ~HasToken(tokens', k)
       /\ \A s \in Slots :
             (/\ Acts(s)
              /\ req'[s].kind = "logout"
              /\ req'[s].reached = "json")
             => ~HasToken(tokens', ToNumber(req'[s].body.tokenId))]_vars

\* A record was deleted by logout and a later login created another one.
C10_RevokedThenLogin ==
    \E k \in 1..(nextTokenId - 1) :
        /\ ~HasToken(tokens, k)
        /\ \E o \in seen : o.kind = "logout" /\ o.case = "found"
        /\ \E t \in tokens : t.id > k

\* C11: no success response of verifyOtp or login contains the user's
\* password hash: the user object in the 200 response has its password
\* field scrubbed (null or absent).
C11_PasswordScrubbed ==
    \A f \in Frames :
        (IsSession(f) /\ f.reached = "json") =>
            \A i \in 1..Len(f.out) :
                (f.out[i].t = "json" /\ f.out[i].status = 200) =>
                    f.out[i].body.password \in {Null, <<>>}

\* C12: every user a verifyOtp request created has role CUSTOMER and a
\* password field equal to the passwordHash field of the envelope the
\* request carried, which is a hash sendOtp computed and sent; and the
\* plaintext password is no field of an envelope sent, no password of a
\* stored user and no part of a sendOtp response.
C12_RegisteredAsSent ==
    /\ \A f \in Frames :
          (IsVerify(f) /\ f.user # NoUser) =>
            /\ f.user.role = CUSTOMER
            /\ f.user.password = Split(f.body.hashOtp)[3]
            /\ \E i \in issued :
                  f.user.password = Split(i.sent.hashOtp)[3]
    /\ \A u \in users : u.password \notin Passwords
    /\ \A i \in issued :
          /\ \A k \in 1..Len(Split(i.sent.hashOtp)) :
                Split(i.sent.hashOtp)[k] \notin Passwords
          /\ DOMAIN i.sent = {"fullName", "email", "hashOtp", "otp"}
          /\ i.sent.otp \notin Passwords

\* C13: no step of sendOtp, whether it succeeds or fails, changes the user
\* store or the refresh-token store or sets a cookie; a valid sendOtp with
\* matching passwords for an email that has no user is not refused, however
\* many envelopes were sent for that email before, and when its
\* collaborators answer it returns an envelope that verifies with its otp.
C13_SendOtpStateless ==
    [][\A s \in Slots :
          (Acts(s) /\ req'[s].kind = "sendOtp") =>
            LET f == req[s]
                g == req'[s]
            IN  /\ users' = users
                /\ tokens' = tokens
                /\ sessions' = sessions
                /\ g.cookies = <<>>
                /\ (/\ f.pc # "hash"
                    /\ g.body.valid
                    /\ g.body.password = g.body.confirmPassword
                    /\ ~Registered(g.body.email)
                    /\ g.reached # "lookup") => g.reached = "hash"
                /\ f.pc = "hash" =>
                      /\ g.reached \in {"json", "bcrypt"}
                      /\ g.reached = "json" =>
                            /\ Len(g.out) = 1
                            /\ g.out[1].status = 200
                            /\ [sent |-> g.out[1].body, at |-> now] \in issued'
                            /\ VerifyChecks(NoUser, g.out[1].body.otp,
                                  g.body.email, g.out[1].body.hashOtp, now)
                                 = "verified"]_vars

\* Two envelopes were sent for one email that has no user, and a sendOtp
\* for it has just answered.
C13_TwoEnvelopes ==
    /\ \E i \in issued, j \in issued :
          /\ i # j
          /\ i.sent.email = j.sent.email
          /\ ~Registered(i.sent.email)
    /\ \E f \in Frames : f.kind = "sendOtp" /\ f.reached = "json"

\* C14: a verifyOtp that fails on its envelope ends with the OTP-invalid
\* error (status 400, one message) or, at the expiry check, with the
\* OTP-expired error (status 408), and with nothing else; and for an
\* envelope that is still valid, a malformed envelope, a wrong otp, a wrong
\* email, a changed expiresAt that is not in the past and a changed
\* passwordHash all get that same OTP-invalid error, while an expiresAt
\* changed to the past gets OTP-expired.  The second part is computed for
\* every envelope sent so far, in the states in which a sendOtp has just
\* answered.
C14_FailuresAlike ==
    /\ \A f \in Frames :
          (ReachedEnvelope(f) /\ ~Verified(f)) =>
            /\ f.pc = "done"
            /\ f.cookies = <<>>
            /\ f.reached \in {"split", "expiry", "digest"}
            /\ f.reached # "expiry" =>
                  f.out = <<NextErr(400, "Otp is invalid!")>>
            /\ f.reached = "expiry" =>
                  f.out = <<NextErr(408, "Otp is expired!")>>
    /\ \A i \in IF \E f \in Frames : f.kind = "sendOtp" /\ f.reached = "json"
                 THEN issued ELSE {} :
          LET e == i.sent
              fl == Split(e.hashOtp)
              Err(otp, email, hashOtp) ==
                  VerifyError(VerifyChecks(NoUser, otp, email, hashOtp, now))
              invalid == NextErr(400, "Otp is invalid!")
          IN  VerifyChecks(NoUser, e.otp, e.email, e.hashOtp, now)
                 = "verified" =>
                /\ \A h \in {<<>>, <<"0">>, e.hashOtp \o <<"#", "0">>,
                              fl[1] \o <<"#">> \o fl[2]} :
                      Err(e.otp, e.email, h) = invalid
                /\ \A otp \in Otps \ {e.otp} :
                      Err(otp, e.email, e.hashOtp) = invalid
                /\ \A email \in Emails \ {e.email} :
                      Err(e.otp, email, e.hashOtp) = invalid
                /\ \A x \in {ToString(ToNumber(fl[2]) + ttl),
                              ToString(ToNumber(fl[2]) + 1),
                              <<"b", ".">> \o fl[2], <<>>, <<"0">>} :
                      Err(e.otp, e.email, JoinHash(fl[1], x, fl[3])) =
                         IF OtpExpired(now, x)
                         THEN NextErr(408, "Otp is expired!") ELSE invalid
                /\ \A h \in {hashDataUsingBcrypt(<<"q">>), <<>>} :
                      Err(e.otp, e.email, JoinHash(fl[1], fl[2], h)) = invalid

\* A verifyOtp with an envelope as it was sent, still valid, and a wrong otp
\* has ended with the OTP-invalid error.
C14_WrongOtp ==
    \E f \in Frames, i \in issued :
        /\ IsVerify(f) /\ f.reached = "digest"
        /\ f.body.hashOtp = i.sent.hashOtp
        /\ f.body.email = i.sent.email
        /\ f.body.otp # i.sent.otp
        /\ f.at <= i.at + ttl

\* C15: verifyOtp reports the first check that fails, in the order email
\* registered (conflict), 3-field structure (OTP invalid), expiry (OTP
\* expired), digest (OTP invalid): a request for a registered email gets the
\* conflict error whatever its envelope, and a 3-field envelope that is
\* expired gets OTP-expired whether or not its digest matches.
C15_CheckOrder ==
    \A f \in Frames :
        (/\ IsVerify(f) /\ f.pc = "done"
         /\ f.reached \notin {"validation", "lookup"}
         /\ ~Verified(f)) =>
          LET fl == Split(f.body.hashOtp)
              expired == /\ ToNumber(fl[2]) # NaN
                         /\ now > ToNumber(fl[2])
          IN  /\ f.regAtStart =>
                    /\ f.reached = "registered"
                    /\ f.out = <<NextErr(400, "This email already registered!")>>
              /\ (~f.regAtStart /\ Len(fl) # 3) =>
                    /\ f.reached = "split"
                    /\ f.out = <<NextErr(400, "Otp is invalid!")>>
              /\ (~f.regAtStart /\ Len(fl) = 3 /\ expired) =>
                    /\ f.reached = "expiry"
                    /\ f.out = <<NextErr(408, "Otp is expired!")>>
              /\ (~f.regAtStart /\ Len(fl) = 3 /\ ~expired) =>
                    /\ f.reached = "digest"
                    /\ f.out = <<NextErr(400, "Otp is invalid!")>>
                    /\ DigestMismatch(f.body.otp, f.body.email, fl[2], fl[3],
                                      fl[1])

\* An envelope that is both expired and forged was answered OTP-expired.
C15_ExpiredAndForged ==
    \E f \in Frames :
        LET fl == Split(f.body.hashOtp)
        IN  /\ IsVerify(f) /\ f.reached = "expiry"
            /\ Len(fl) = 3
            /\ DigestMismatch(f.body.otp, f.body.email, fl[2], fl[3], fl[1])

\* C16: a step of logout removes from the refresh-token store the record
\* whose id is the tokenId of the session presented and no other record,
\* of the same user or of another, and leaves the user store as it was; a
\* logout whose deleteToken throws removes nothing.
C16_LogoutFrame ==
    [][\A s \in Slots :
          (Acts(s) /\ req'[s].kind = "logout") =>
            LET k == ToNumber(req'[s].body.tokenId)
            IN  /\ users' = users
                /\ nextUserId' = nextUserId
                /\ \A t \in tokens : t.id # k => t \in tokens'
                /\ tokens' \subseteq tokens
                /\ req'[s].reached = "json" => ~HasToken(tokens', k)
                /\ req'[s].reached # "json" => tokens' = tokens]_vars

\* A logout has removed the record of one session of a user while another
\* session of the same user keeps its record.
C16_OtherSessionKept ==
    \E f \in Frames :
        /\ f.kind = "logout" /\ f.reached = "json"
        /\ ~HasToken(tokens, ToNumber(f.body.tokenId))
        /\ \E r \in sessions :
              /\ r.tokenId # f.body.tokenId
              /\ r.userId = f.body.userId
              /\ HasToken(tokens, ToNumber(r.tokenId))

\* C17: every invocation of sendOtp, verifyOtp, self, logout and login that
\* has ended produced exactly one outcome: one call of next(error) or one
\* JSON response, never both and never two calls of next.
C17_OneOutcome ==
    \A f \in Frames :
        f.pc = "done" =>
            /\ Len(f.out) = 1
            /\ f.out[1].t \in {"next", "json"}

\* C18: a verifyOtp that ended with an error left no user behind: the user
\* store holds no row that this call created.
C18_FailedVerifyLeavesNoUser ==
    \A f \in Frames :
        (/\ IsVerify(f) /\ f.pc = "done"
         /\ \E i \in 1..Len(f.out) : f.out[i].t = "next")
        => f.user \notin users

\* C18 as amended: a step of verifyOtp changes the user store only by
\* adding the one row saveUser returned; a verifyOtp that ends with an
\* error before saveUser has succeeded leaves the user store as it was, and
\* one that ends with an error after that (token signing or
\* saveRefreshToken failed) leaves the row it created in the store and sets
\* no cookie.
C18_ErrorBeforeSaveKeepsStore ==
    [][\A s \in Slots :
          (Acts(s) /\ req'[s].kind = "verifyOtp") =>
            LET f == req[s]
                g == req'[s]
            IN  /\ users' # users =>
                      /\ f.pc = "save"
                      /\ g.user # NoUser
                      /\ users' = users \cup {g.user}
                /\ g.reached \in {"validation", "lookup", "registered",
                                  "split", "expiry", "digest", "unique",
                                  "saveUser"} =>
                      /\ g.pc = "done"
                      /\ users' = users
                      /\ g.user = NoUser
                /\ g.reached \in {"signAccess", "saveToken", "signRefresh"} =>
                      /\ g.pc = "done"
                      /\ g.out = <<Thrown>>
                      /\ g.user \in users'
                      /\ g.cookies = <<>>]_vars

\* saveRefreshToken failed in a verifyOtp whose user is stored.
C18_UserLeftBehind ==
    \E f \in Frames :
        /\ IsVerify(f) /\ f.reached = "saveToken"
        /\ f.user \in users

\* C19: a handler of the user routes has run only for a request whose
\* access token verified and that passed checkAccessToken; getOne, getAll
\* and delete have run only for a request that passed checkAccessToken and
\* then the permission check, with role ADMIN; no handler has run for a
\* request without a token that verifies.
C19_RoutesGuarded ==
    routed.handler # "" =>
        LET passed == routed.passed
        IN  /\ routed.token # "none"
            /\ \E i \in 1..Len(passed) : passed[i] = "checkAccessToken"
            /\ routed.handler \in {"getOne", "getAll", "delete"} =>
                  /\ routed.token = ADMIN
                  /\ \E i \in 1..Len(passed), j \in 1..Len(passed) :
                        /\ i < j
                        /\ passed[i] = "checkAccessToken"
                        /\ passed[j] = "permissionMiddleware"

\* An admin has deleted a user by id.
C19_AdminDeletes ==
    /\ routed.handler = "delete"
    /\ routed.token = ADMIN
    /\ routed.path = "/7"
====
